---- MODULE Spec2Model ----
(***************************************************************************)
(* Model of mcp_server.py (KittenTTSServer): the text segmenter            *)
(* _split_text, run as a state machine over one loop iteration per step,   *)
(* and the tool-call handlers speak / announce / code_review with          *)
(* _generate_and_play, run as asyncio tasks that interleave at awaits.     *)
(*                                                                         *)
(* A Python str is a sequence of one-character strings.                    *)
(***************************************************************************)
EXTENDS Integers, Sequences, FiniteSets, TLC

VARIABLES
    \* _split_text (lines 189-230): its parameters and locals
    text, max_length, remaining, chunks, best_break, best_pattern, spc,
    \* the server: one asyncio task per tool call
    task

vars == <<text, max_length, remaining, chunks, best_break, best_pattern, spc, task>>

splitVars == <<text, max_length, remaining, chunks, best_break, best_pattern, spc>>

(***************************************************************************)
(* Bounds of the model                                                     *)
(***************************************************************************)
\* SpecSplit: every text over Alphabet up to this length ...
MaxTextLen == 6
\* ... against every max_length in 1..MaxMaxLength
MaxMaxLength == 4
\* SpecMarker: texts a^h . s . a^t with h <= MaxHead, Len(s) <= MaxMid, t <= MaxTail
MaxHead == 4
MaxMid == 4
MaxTail == 1
MarkerMaxLength == 8
\* Spec / FairSpec: number of tool calls in flight
NumCalls == 2

(***************************************************************************)
(* Python str operations                                                   *)
(***************************************************************************)
None == <<"None">>

Min(a, b) == IF a < b THEN a ELSE b

\* the characters str.strip() removes (space, and tab standing for the other
\* whitespace characters); rfind(' ') and rsplit(' ') see the space only
Whitespace == {" ", "\t"}

\* s[:n]
Take(s, n) == SubSeq(s, 1, Min(n, Len(s)))

\* s[n:]
Drop(s, n) == SubSeq(s, Min(n, Len(s)) + 1, Len(s))

\* s.rfind(pattern): the highest 0-based index where pattern occurs, or -1
RFind(s, pattern) ==
    LET hits == {p \in 0..(Len(s) - Len(pattern)) :
                    SubSeq(s, p + 1, p + Len(pattern)) = pattern}
    IN IF hits = {} THEN -1 ELSE CHOOSE p \in hits : \A q \in hits : q <= p

\* s.strip()
Strip(s) ==
    LET keep == {i \in 1..Len(s) : s[i] \notin Whitespace}
    IN IF keep = {} THEN <<>>
       ELSE SubSeq(s, CHOOSE i \in keep : \A j \in keep : i <= j,
                      CHOOSE i \in keep : \A j \in keep : j <= i)

\* s.rsplit(' ', 1)
RSplit1(s) ==
    LET pos == RFind(s, <<" ">>)
    IN IF pos = -1 THEN <<s>> ELSE <<Take(s, pos), Drop(s, pos + 1)>>

StartsWith(s, p) == Len(s) >= Len(p) /\ Take(s, Len(p)) = p

EndsWith(s, p) == Len(s) >= Len(p) /\ Drop(s, Len(s) - Len(p)) = p

(***************************************************************************)
(* _split_text                                                             *)
(***************************************************************************)
\* the first components of break_patterns, in list order (lines 195-198)
break_patterns ==
    << <<",", " ">>, <<" ", "a", "n", "d", " ">>, <<" ", "b", "u", "t", " ">>,
       <<".", " ">>, <<" ", "-", " ">>, <<";", " ">>, <<" ">> >>

\* off by one: the window taken one character too long
WindowTooLong(rem, maxlen) == Take(rem, maxlen + 1)

\* chunk_text = remaining[:max_length] (line 204)
Window(rem, maxlen) == Take(rem, maxlen)

\* pos > max_length * 0.5 (line 210)
Qualifies(pos, maxlen) == 2 * pos > maxlen

\* the for loop of lines 208-212 from pattern i on, with the running best
RECURSIVE ScanPatterns(_, _, _, _)
ScanPatterns(chunk_text, maxlen, i, best) ==
    IF i > Len(break_patterns) THEN best
    ELSE LET pattern == break_patterns[i]
             pos == RFind(chunk_text, pattern)
         IN ScanPatterns(chunk_text, maxlen, i + 1,
                IF pos > best.best_break /\ Qualifies(pos, maxlen)
                THEN [best_break |-> pos, best_pattern |-> pattern]
                ELSE best)

\* best_break, best_pattern after the for loop (lines 205-212)
FindBreak(rem, maxlen) ==
    ScanPatterns(Window(rem, maxlen), maxlen, 1,
                 [best_break |-> -1, best_pattern |-> None])

\* the word after the last space forgotten: remaining = remaining[max_length:]
LastSpaceRestDropsWord(words, rem, maxlen) == Drop(rem, maxlen)

\* the space kept at the head of remaining: remaining = remaining[pos:]
LastSpaceRestKeepsSpace(words, rem, maxlen) ==
    <<" ">> \o words[2] \o Drop(rem, maxlen)

\* remaining = words[1] + remaining[max_length:] (line 222)
LastSpaceRest(words, rem, maxlen) == words[2] \o Drop(rem, maxlen)

\* remaining = remaining[max_length:] (line 225)
HardCutRest(rem, maxlen) == Drop(rem, maxlen)

\* one iteration of the while loop (lines 204-225): the chunk appended, the new
\* remaining, the break found and the branch taken
SplitIter(rem, maxlen) ==
    LET chunk_text == Window(rem, maxlen)
        best == FindBreak(rem, maxlen)
        cut == best.best_break + Len(best.best_pattern)
        words == RSplit1(chunk_text)
    IN IF best.best_break > 0
       THEN [chunk |-> Strip(Take(rem, cut)), remaining |-> Strip(Drop(rem, cut)),
             best |-> best, branch |-> "marker"]
       ELSE IF Len(words) > 1
       THEN [chunk |-> words[1], remaining |-> LastSpaceRest(words, rem, maxlen),
             best |-> best, branch |-> "last_space"]
       ELSE [chunk |-> chunk_text, remaining |-> HardCutRest(rem, maxlen),
             best |-> best, branch |-> "hard_cut"]

\* the while loop and the final remainder (lines 203-230)
RECURSIVE SplitLoop(_, _, _)
SplitLoop(rem, maxlen, acc) ==
    IF Len(rem) > maxlen
    THEN LET it == SplitIter(rem, maxlen)
         IN SplitLoop(it.remaining, maxlen, Append(acc, it.chunk))
    ELSE IF rem # <<>> THEN Append(acc, rem) ELSE acc

\* _split_text(text, max_length) as a function of its arguments
SplitText(t, maxlen) ==
    IF Len(t) <= maxlen THEN <<t>> ELSE SplitLoop(t, maxlen, <<>>)

(***************************************************************************)
(* _split_text as a state machine: one step per loop iteration             *)
(***************************************************************************)
\* if len(text) <= max_length: return [text] (lines 191-192)
SplitShort ==
    /\ spc = "entry"
    /\ Len(text) <= max_length
    /\ chunks' = <<text>>
    /\ spc' = "return"
    /\ UNCHANGED <<text, max_length, remaining, best_break, best_pattern, task>>

\* chunks = []; remaining = text (lines 200-201)
SplitBegin ==
    /\ spc = "entry"
    /\ Len(text) > max_length
    /\ chunks' = <<>>
    /\ remaining' = text
    /\ spc' = "loop"
    /\ UNCHANGED <<text, max_length, best_break, best_pattern, task>>

\* while len(remaining) > max_length (line 203)
LoopGuard == spc = "loop" /\ Len(remaining) > max_length

\* a break was found: cut after the marker, strip both pieces (lines 214-217)
SplitMarker ==
    /\ LoopGuard
    /\ SplitIter(remaining, max_length).branch = "marker"
    /\ chunks' = Append(chunks, SplitIter(remaining, max_length).chunk)
    /\ remaining' = SplitIter(remaining, max_length).remaining
    /\ best_break' = SplitIter(remaining, max_length).best.best_break
    /\ best_pattern' = SplitIter(remaining, max_length).best.best_pattern
    /\ UNCHANGED <<text, max_length, spc, task>>

\* no break found, the window holds a space: cut at the last one (lines 219-222)
SplitLastSpace ==
    /\ LoopGuard
    /\ SplitIter(remaining, max_length).branch = "last_space"
    /\ chunks' = Append(chunks, SplitIter(remaining, max_length).chunk)
    /\ remaining' = SplitIter(remaining, max_length).remaining
    /\ best_break' = SplitIter(remaining, max_length).best.best_break
    /\ best_pattern' = SplitIter(remaining, max_length).best.best_pattern
    /\ UNCHANGED <<text, max_length, spc, task>>

\* no break found and no space in the window: hard cut (lines 223-225)
SplitHardCut ==
    /\ LoopGuard
    /\ SplitIter(remaining, max_length).branch = "hard_cut"
    /\ chunks' = Append(chunks, SplitIter(remaining, max_length).chunk)
    /\ remaining' = SplitIter(remaining, max_length).remaining
    /\ best_break' = SplitIter(remaining, max_length).best.best_break
    /\ best_pattern' = SplitIter(remaining, max_length).best.best_pattern
    /\ UNCHANGED <<text, max_length, spc, task>>

\* if remaining: chunks.append(remaining); return chunks (lines 227-230)
SplitFinish ==
    /\ spc = "loop"
    /\ Len(remaining) <= max_length
    /\ chunks' = IF remaining # <<>> THEN Append(chunks, remaining) ELSE chunks
    /\ spc' = "return"
    /\ UNCHANGED <<text, max_length, remaining, best_break, best_pattern, task>>

NextSplit ==
    \/ SplitShort
    \/ SplitBegin
    \/ SplitMarker
    \/ SplitLastSpace
    \/ SplitHardCut
    \/ SplitFinish

\* all strings over alphabet of length <= n
RECURSIVE Strings(_, _)
Strings(alphabet, n) ==
    IF n = 0 THEN {<<>>}
    ELSE LET shorter == Strings(alphabet, n - 1)
         IN shorter \cup {Append(s, ch) : s \in shorter, ch \in alphabet}

\* n copies of the string s
RECURSIVE Rep(_, _)
Rep(s, n) == IF n = 0 THEN <<>> ELSE s \o Rep(s, n - 1)

(***************************************************************************)
(* The server: handle_call_tool, speak, announce, code_review and          *)
(* _generate_and_play.  Each tool call is an asyncio task; the code        *)
(* between two awaits runs as one step, and the tasks interleave at the    *)
(* awaits (create_subprocess_exec, communicate, wait).                     *)
(***************************************************************************)
Calls == 1..NumCalls

\* max_length: int = 380 (line 189)
DefaultMaxLength == 380

\* config.get('TTS_VOICE', 'expr-voice-2-m') (lines 150, 177)
ConfigVoice == "expr-voice-2-m"

\* f"Listen kid, {text}" (line 140)
ListenKid == <<"L", "i", "s", "t", "e", "n", " ", "k", "i", "d", ",", " ">>

\* "....." (lines 141-142)
Dots5 == <<".", ".", ".", ".", ".">>

\* f"Consider this: {text}" (line 144)
ConsiderThis ==
    <<"C", "o", "n", "s", "i", "d", "e", "r", " ", "t", "h", "i", "s", ":", " ">>

\* f"Please note: {text}" (line 146)
PleaseNote == <<"P", "l", "e", "a", "s", "e", " ", "n", "o", "t", "e", ":", " ">>

\* the personality modifications of speak (lines 138-146)
ApplyPersonality(t, personality) ==
    IF personality = "grizzled"
    THEN LET t1 == IF ~StartsWith(t, <<"K", "i", "d", ",">>)
                      /\ ~StartsWith(t, <<"L", "i", "s", "t", "e", "n", ",">>)
                   THEN ListenKid \o t ELSE t
         IN IF ~EndsWith(t1, Dots5) THEN t1 \o Dots5 ELSE t1
    ELSE IF personality = "zen" THEN ConsiderThis \o t
    ELSE IF personality = "professional" THEN PleaseNote \o t
    ELSE t

\* prefixes.get(tone, '') (lines 164-171)
TonePrefix(tone) ==
    CASE tone = "success" -> <<"G", "r", "e", "a", "t", " ", "n", "e", "w", "s", "!">>
      [] tone = "warning" -> <<"H", "e", "a", "d", "s", " ", "u", "p", ":">>
      [] tone = "info" -> <<"J", "u", "s", "t", " ", "s", "o", " ", "y", "o", "u", " ",
                            "k", "n", "o", "w", ",">>
      [] tone = "error" -> <<"O", "h", " ", "n", "o", "!">>
      [] OTHER -> <<>>

\* voices.get(tone) (lines 174-181)
ToneVoice(tone) ==
    CASE tone = "success" -> "expr-voice-3-f"
      [] tone = "warning" -> "expr-voice-4-m"
      [] tone = "info" -> ConfigVoice
      [] tone = "error" -> "expr-voice-5-m"
      [] OTHER -> "None"

\* full_message = f"{prefixes.get(tone, '')} {message}......" (line 171)
FullMessage(message, tone) ==
    TonePrefix(tone) \o <<" ">> \o message \o Dots5 \o <<".">>

\* f"Spoke: '{text[:50]}...'" if len(text) > 50 else f"Spoke: '{text}'" (line 159)
SpokeResult(t) == [kind |-> "Spoke", text |-> Take(t, 50), cut |-> Len(t) > 50]

\* the order in which `for chunk in chunks` visits the n chunks (line 156)
ChunkOrderReversed(n) == [p \in 1..n |-> n + 1 - p]

ChunkOrder(n) == [p \in 1..n |-> p]

\* the two NamedTemporaryFile(delete=False) of chunk k (lines 277-282)
CreateTempFiles(k) == {[kind |-> "script", chunk |-> k], [kind |-> "audio", chunk |-> k]}

\* cleanup done after the try block only, so skipped when an exception unwinds
CleanupAfterTry(files, raising) == IF raising THEN files ELSE {}

\* the finally block: both files unlinked, on return and on exception alike
\* (lines 310-316)
FinallyCleanup(files, raising) == {}

NoTask ==
    [pc |-> "idle", tool |-> "None", text |-> <<>>, voice |-> "None", chunks |-> <<>>,
     pos |-> 0, files |-> {}, proc |-> "none", playlog |-> <<>>, result |-> None]

\* the chunk the task is working on
Current(t) == ChunkOrder(Len(t.chunks))[t.pos]

\* _generate_and_play up to its first await: the temp files exist and the
\* synthesis subprocess is being spawned (lines 232-296)
BeginChunk(t, p) ==
    [t EXCEPT !.pos = p,
              !.files = CreateTempFiles(ChunkOrder(Len(t.chunks))[p]),
              !.pc = "spawn_synth"]

\* what the tool returns once every chunk is through (lines 159, 182)
FinalResult(t) ==
    IF t.tool = "announce" THEN [kind |-> "Announced", text |-> t.text, cut |-> FALSE]
    ELSE SpokeResult(t.text)

\* _generate_and_play returns normally: the finally block runs, then the for
\* loop of speak goes on to the next chunk or the tool returns
ChunkReturns(t) ==
    LET u == [t EXCEPT !.files = FinallyCleanup(t.files, FALSE), !.proc = "none"]
    IN IF u.pos < Len(u.chunks)
       THEN BeginChunk(u, u.pos + 1)
       ELSE [u EXCEPT !.pc = "done", !.result = FinalResult(u)]

\* an exception leaves _generate_and_play: the finally block runs and the
\* exception propagates through speak / announce out of handle_call_tool
ChunkRaises(t) ==
    [t EXCEPT !.files = FinallyCleanup(t.files, TRUE), !.proc = "none",
              !.pc = "raised", !.result = <<"error">>]

\* speak (lines 132-159) up to its first await
Speak(t, voice, personality) ==
    IF t = <<>>
    THEN [NoTask EXCEPT !.pc = "done", !.tool = "speak",
                        !.result = <<"No text provided to speak">>]
    ELSE LET txt == ApplyPersonality(t, personality)
             u == [NoTask EXCEPT !.tool = "speak", !.text = txt,
                                 !.voice = IF voice = "None" THEN ConfigVoice ELSE voice,
                                 !.chunks = SplitText(txt, DefaultMaxLength)]
         IN IF u.chunks = <<>>
            THEN [u EXCEPT !.pc = "done", !.result = SpokeResult(txt)]
            ELSE BeginChunk(u, 1)

\* announce (lines 161-182) up to its first await: the message is not split
Announce(message, tone) ==
    BeginChunk([NoTask EXCEPT !.tool = "announce", !.text = message,
                              !.voice = ToneVoice(tone),
                              !.chunks = <<FullMessage(message, tone)>>], 1)

\* code_review (lines 184-187)
CodeReview(feedback) ==
    [Speak(feedback, "expr-voice-2-m", "grizzled") EXCEPT !.tool = "code_review"]

\* the texts the tool calls are made with
ShortText == <<"h", "i">>

LongText == Rep(<<"a", "a", "a", "a", ",", " ">>, 64)

\* the (text, personality) arguments speak is called with
SpeakArgs ==
    {[text |-> <<>>, personality |-> "friendly"],
     [text |-> ShortText, personality |-> "professional"],
     [text |-> LongText, personality |-> "zen"]}

\* handle_call_tool, name == "speak" (lines 112-117)
CallSpeak(c) ==
    /\ task[c].pc = "idle"
    /\ \E a \in SpeakArgs :
          task' = [task EXCEPT ![c] = Speak(a.text, "None", a.personality)]
    /\ UNCHANGED splitVars

\* handle_call_tool, name == "announce" (lines 118-122)
CallAnnounce(c) ==
    /\ task[c].pc = "idle"
    /\ \E tone \in {"error"} :
          task' = [task EXCEPT ![c] = Announce(ShortText, tone)]
    /\ UNCHANGED splitVars

\* handle_call_tool, name == "code_review" (lines 123-126)
CallCodeReview(c) ==
    /\ task[c].pc = "idle"
    /\ task' = [task EXCEPT ![c] = CodeReview(ShortText)]
    /\ UNCHANGED splitVars

\* handle_call_tool, any other name (lines 127-128)
CallUnknown(c) ==
    /\ task[c].pc = "idle"
    /\ task' = [task EXCEPT ![c] = [NoTask EXCEPT !.pc = "done", !.tool = "unknown",
                                                  !.result = <<"Unknown tool">>]]
    /\ UNCHANGED splitVars

\* create_subprocess_exec of the synthesis script succeeds (lines 290-296);
\* the subprocess will exit, or never does
SynthSpawned(c) ==
    /\ task[c].pc = "spawn_synth"
    /\ \E p \in {"running", "hung"} :
          task' = [task EXCEPT ![c].pc = "synth_wait", ![c].proc = p]
    /\ UNCHANGED splitVars

\* create_subprocess_exec of the synthesis script raises (no such interpreter)
SynthSpawnFails(c) ==
    /\ task[c].pc = "spawn_synth"
    /\ task' = [task EXCEPT ![c] = ChunkRaises(task[c])]
    /\ UNCHANGED splitVars

\* communicate() returns with returncode 0: the player is spawned (lines 298-307)
SynthSucceeds(c) ==
    /\ task[c].pc = "synth_wait"
    /\ task[c].proc = "running"
    /\ task' = [task EXCEPT ![c].pc = "spawn_player", ![c].proc = "none"]
    /\ UNCHANGED splitVars

\* communicate() returns with a non-zero returncode: nothing is played (line 300)
SynthFails(c) ==
    /\ task[c].pc = "synth_wait"
    /\ task[c].proc = "running"
    /\ task' = [task EXCEPT ![c] = ChunkReturns(task[c])]
    /\ UNCHANGED splitVars

\* create_subprocess_exec of the player succeeds (lines 303-307)
PlayerSpawned(c) ==
    /\ task[c].pc = "spawn_player"
    /\ task' = [task EXCEPT ![c].pc = "play_wait", ![c].proc = "playing",
                            ![c].playlog = Append(@, [ev |-> "start",
                                                      chunk |-> Current(task[c])])]
    /\ UNCHANGED splitVars

\* create_subprocess_exec of the player raises (no such player)
PlayerSpawnFails(c) ==
    /\ task[c].pc = "spawn_player"
    /\ task' = [task EXCEPT ![c] = ChunkRaises(task[c])]
    /\ UNCHANGED splitVars

\* play_result.wait() returns; the player's exit code is not looked at (line 308)
PlayerExits(c) ==
    /\ task[c].pc = "play_wait"
    /\ task' = [task EXCEPT ![c] =
                  ChunkReturns([task[c] EXCEPT !.playlog =
                      Append(@, [ev |-> "exit", chunk |-> Current(task[c])])])]
    /\ UNCHANGED splitVars

\* the steps of a call once it is being handled
TaskStep(c) ==
    \/ SynthSpawned(c)
    \/ SynthSpawnFails(c)
    \/ SynthSucceeds(c)
    \/ SynthFails(c)
    \/ PlayerSpawned(c)
    \/ PlayerSpawnFails(c)
    \/ PlayerExits(c)

Next ==
    \E c \in Calls :
        \/ CallSpeak(c)
        \/ CallAnnounce(c)
        \/ CallCodeReview(c)
        \/ CallUnknown(c)
        \/ TaskStep(c)

Init ==
    /\ text = <<>>
    /\ max_length = DefaultMaxLength
    /\ remaining = <<>>
    /\ chunks = <<>>
    /\ best_break = -1
    /\ best_pattern = None
    /\ spc = "unused"
    /\ task = [c \in Calls |-> NoTask]

Spec == Init /\ [][Next]_vars

\* every spawn completes and every subprocess that is not hung exits
FairSpec == Spec /\ \A c \in Calls : WF_vars(TaskStep(c))

(***************************************************************************)
(* _split_text on its own: the inputs it is run with                       *)
(***************************************************************************)
Alphabet == {"a", ",", " ", "\t"}

MarkerAlphabet == {"a", ",", " "}

InitSplitLocals ==
    /\ remaining = <<>>
    /\ chunks = <<>>
    /\ best_break = -1
    /\ best_pattern = None
    /\ spc = "entry"
    /\ task = [c \in Calls |-> NoTask]

InitSplit ==
    /\ text \in Strings(Alphabet, MaxTextLen)
    /\ max_length \in 1..MaxMaxLength
    /\ InitSplitLocals

InitMarker ==
    /\ text \in {Rep(<<"a">>, h) \o s \o Rep(<<"a">>, t) :
                    h \in 0..MaxHead, s \in Strings(MarkerAlphabet, MaxMid),
                    t \in 0..MaxTail}
    /\ max_length \in 1..MarkerMaxLength
    /\ InitSplitLocals

SpecSplit == InitSplit /\ [][NextSplit]_vars

SpecMarker == InitMarker /\ [][NextSplit]_vars

(***************************************************************************)
(* Properties of _split_text                                               *)
(***************************************************************************)
\* the non-whitespace characters of s, in order
NonWs(s) == SelectSeq(s, LAMBDA ch : ch \notin Whitespace)

\* s.split(): the maximal whitespace-free runs of s, in order; two strings
\* are equal modulo whitespace collapse iff their tokens are equal
RECURSIVE TokensFrom(_, _, _, _)
TokensFrom(s, i, cur, acc) ==
    IF i > Len(s) THEN (IF cur = <<>> THEN acc ELSE Append(acc, cur))
    ELSE IF s[i] \in Whitespace
         THEN TokensFrom(s, i + 1, <<>>, IF cur = <<>> THEN acc ELSE Append(acc, cur))
         ELSE TokensFrom(s, i + 1, Append(cur, s[i]), acc)

Tokens(s) == TokensFrom(s, 1, <<>>, <<>>)

\* ' '.join(parts)
RECURSIVE JoinSp(_)
JoinSp(parts) ==
    IF parts = <<>> THEN <<>>
    ELSE IF Len(parts) = 1 THEN parts[1]
    ELSE parts[1] \o <<" ">> \o JoinSp(Tail(parts))

\* ''.join(parts)
RECURSIVE Concat(_)
Concat(parts) == IF parts = <<>> THEN <<>> ELSE parts[1] \o Concat(Tail(parts))

\* no run of characters other than the space is longer than n
NoLongRun(s, n) ==
    \A i \in 1..(Len(s) - n) : \E j \in i..(i + n) : s[j] = " "

\* C5 as stated: the chunks joined with single spaces equal the text modulo
\* whitespace collapse (same tokens, so nothing lost, duplicated, reordered
\* or separated)
C5_RejoinEqualsOriginal ==
    spc = "return" => Tokens(JoinSp(chunks)) = Tokens(text)

\* C5 amended: the chunks hold exactly the non-whitespace characters of the
\* text in order; and when no run of non-space characters is longer than
\* max_length, the chunks joined with single spaces equal the text modulo
\* whitespace collapse
C5_RejoinAmended ==
    spc = "return" =>
        /\ NonWs(Concat(chunks)) = NonWs(text)
        /\ NoLongRun(text, max_length) => Tokens(JoinSp(chunks)) = Tokens(text)

\* a text of several tokens, none longer than max_length, was cut into
\* several chunks
C5_Witness ==
    /\ spc = "return"
    /\ Len(text) > max_length
    /\ NoLongRun(text, max_length)
    /\ Len(Tokens(text)) >= 2
    /\ Len(chunks) >= 3

\* C6: every chunk _split_text has produced is at most max_length long
C6_ChunkLengthBounded ==
    \A i \in 1..Len(chunks) : Len(chunks[i]) <= max_length

\* a text without any space, longer than max_length, was hard-cut
C6_Witness ==
    /\ spc = "return"
    /\ RFind(text, <<" ">>) = -1
    /\ Len(text) > 2 * max_length
    /\ Len(chunks) >= 3

\* C7 as stated: for a text longer than max_length every returned chunk is
\* non-empty and has no leading or trailing whitespace
C7_ChunksNonEmptyTrimmed ==
    (spc = "return" /\ Len(text) > max_length) =>
        \A i \in 1..Len(chunks) : chunks[i] # <<>> /\ Strip(chunks[i]) = chunks[i]

\* the priority list of C8
ClaimMarkers ==
    << <<",", " ">>, <<" ", "a", "n", "d", " ">>, <<" ", "b", "u", "t", " ">>,
       <<" ", "b", "e", "c", "a", "u", "s", "e", " ">>, <<" ", "s", "o", " ">>,
       <<".", " ">>, <<" ", "-", " ">>, <<";", " ">>, <<" ">> >>

\* a position at least half of max_length into the window
ClaimQualifies(pos, maxlen) == pos >= 0 /\ 2 * pos >= maxlen

\* the index of the highest-priority marker of C8 that qualifies, 0 if none
ClaimChoice(window, maxlen) ==
    LET ok == {i \in 1..Len(ClaimMarkers) :
                  ClaimQualifies(RFind(window, ClaimMarkers[i]), maxlen)}
    IN IF ok = {} THEN 0 ELSE CHOOSE i \in ok : \A j \in ok : i <= j

\* where C8 cuts: after the rightmost occurrence of marker i in the window
ClaimCut(window, i) == RFind(window, ClaimMarkers[i]) + Len(ClaimMarkers[i])

\* C8 as stated: whenever some marker qualifies, an iteration cuts after the
\* rightmost occurrence of the highest-priority qualifying marker (the two
\* pieces compared after trimming)
C8_HighestPriorityMarker ==
    [][LoopGuard =>
        LET window == Window(remaining, max_length)
            i == ClaimChoice(window, max_length)
        IN i # 0 =>
            /\ Strip(chunks'[Len(chunks')]) = Strip(Take(remaining, ClaimCut(window, i)))
            /\ Strip(remaining') = Strip(Drop(remaining, ClaimCut(window, i)))]_vars

\* C9: every iteration of the while loop leaves remaining strictly shorter
C9_IterationShortens ==
    [][LoopGuard => Len(remaining') < Len(remaining)]_vars

\* an iteration has run and another one is due
C9_Witness ==
    /\ LoopGuard
    /\ chunks # <<>>
    /\ Len(remaining) < Len(text)

(***************************************************************************)
(* Properties of the tool calls                                            *)
(***************************************************************************)
\* C1 as stated: at most one call has a player subprocess running
C1_AtMostOnePlayer ==
    Cardinality({c \in Calls : task[c].pc = "play_wait"}) <= 1

\* C2: within one call the player is started for a chunk only after the
\* player of the previous one has exited, in strictly increasing chunk
\* order, each chunk of the segmentation at most once
C2_ChunksInOrder ==
    \A c \in Calls :
        LET log == task[c].playlog
        IN \A i \in 1..Len(log) :
            /\ log[i].chunk \in 1..Len(task[c].chunks)
            /\ (i % 2 = 1) =>
                  /\ log[i].ev = "start"
                  /\ i > 2 => log[i].chunk > log[i - 2].chunk
            /\ (i % 2 = 0) =>
                  /\ log[i].ev = "exit"
                  /\ log[i].chunk = log[i - 1].chunk

\* a speak call of two chunks has returned with both chunks played
C2_Witness ==
    \E c \in Calls :
        /\ task[c].tool = "speak"
        /\ task[c].pc = "done"
        /\ Len(task[c].chunks) = 2
        /\ Len(task[c].playlog) = 4

\* C3 as stated: no call ends with an error, and a call that has ended has
\* attempted every chunk of its message
C3_NoErrorAllChunksAttempted ==
    \A c \in Calls :
        /\ task[c].pc # "raised"
        /\ task[c].pc \in {"done", "raised"} => task[c].pos = Len(task[c].chunks)

\* C4 as stated: every call that is being handled eventually returns
C4_EveryCallReturns ==
    \A c \in Calls : (task[c].pc # "idle") ~> (task[c].pc \in {"done", "raised"})

====
